---- MODULE Spec2Model ----
(***************************************************************************)
(* Model of typst's table-cell resolution (model/table.rs) and of link     *)
(* display and link construction (model/link.rs).                          *)
(*                                                                         *)
(* Three state machines share the module:                                  *)
(*   SpecTable  TableElem::layout resolving every authored TableCell       *)
(*   SpecLink   the multi-pass typesetting loop calling LinkElem::show     *)
(*   SpecUrl    construction of a link from a URL (body_from_url)          *)
(***************************************************************************)
EXTENDS Integers, Sequences, FiniteSets, TLC

VARIABLES
    table,        \* the TableElem being laid out (fields after style resolution)
    grid,         \* the resolved cells of CellGrid, in child order
    laid,         \* TRUE once TableElem::layout has resolved the grid
    elem,         \* the LinkElem being shown: dest, body, span
    introspector, \* the index the engine exposes during the current pass
    iter,         \* number of passes completed by the typesetting loop
    pc,           \* position inside the typesetting loop
    delayed,      \* delayed errors collected by the tracer in this pass
    queries,      \* number of query_label lookups made in this pass
    output,       \* the content LinkElem::show returned in the latest pass
    previous,     \* the content it returned in the pass before
    status,       \* result of the latest LinkElem::show: "none", "ok" or "err"
    diags,        \* errors the compilation finally reports
    url,          \* the URL string a link is constructed from
    link          \* the LinkElem constructed from url, and how it was constructed

vars == <<table, grid, laid, elem, introspector, iter, pc, delayed, queries,
          output, previous, status, diags, url, link>>

tableVars == <<table, grid, laid>>
linkVars ==
    <<elem, introspector, iter, pc, delayed, queries, output, previous, status, diags>>
urlVars == <<url, link>>

-----------------------------------------------------------------------------
(* Bounds of the model *)

\* Longest list of children of a table
MaxCells == 3
\* Largest number of layout passes of one compilation
PassBudget == 3
\* Largest number of chunks a URL is put together from
MaxChunks == 3

-----------------------------------------------------------------------------
(* foundations: Smart<T> and Option<T> *)

Auto == [tag |-> "Auto"]
Custom(v) == [tag |-> "Custom", v |-> v]
None == [some |-> FALSE]
Some(v) == [some |-> TRUE, v |-> v]

-----------------------------------------------------------------------------
(* Table values *)

Paints == {"blue"}
OptionPaints == {None} \cup {Some(p) : p \in Paints}

SideNames == {"left", "top", "right", "bottom"}

\* Alignments: H(x), V(y) or Both(x, y)
AlignH(x) == [kind |-> "H", x |-> x]
AlignV(y) == [kind |-> "V", y |-> y]
AlignBoth(x, y) == [kind |-> "Both", x |-> x, y |-> y]

\* Align::fold: the inner alignment wins on every axis it sets and takes the
\* other axis from the outer alignment.
AlignFold(inner, outer) ==
    CASE inner.kind = "H" /\ outer.kind \in {"V", "Both"} -> AlignBoth(inner.x, outer.y)
      [] inner.kind = "V" /\ outer.kind \in {"H", "Both"} -> AlignBoth(outer.x, inner.y)
      [] OTHER -> inner

\* Rel<Length>::fold: the inner value replaces the outer one.
RelFold(inner, outer) == inner

\* Sides<Option<T>>::fold: side by side, an inner Some folds over the outer
\* side and an inner None takes the outer side.
SidesFold(inner, outer) ==
    [s \in SideNames |->
        IF inner[s].some THEN RelFold(inner[s].v, outer[s]) ELSE outer[s]]

\* Sides::splat
SidesSplat(v) == [s \in SideNames |-> v]

\* Sides::map(Some)
SidesMapSome(sides) == [s \in SideNames |-> Some(sides[s])]

\* The default of TableElem.inset, 5pt on every side
DefaultInset == 5

\* Celled<T>: a fixed value or a function of (column, row)
CelledValue(v) == [kind |-> "Value", v |-> v]
CelledFunc(f) == [kind |-> "Func", f |-> f]

\* The striped-table fill of the documentation of TableElem.fill
Striped(x, y) == IF x % 2 = 1 THEN Some("gray") ELSE Some("white")

\* The alignment function of the same example: center in the first row, then
\* left in the first column and right elsewhere
HeaderAlign(x, y) ==
    IF y = 0 THEN Custom(AlignH("center"))
    ELSE IF x = 0 THEN Custom(AlignH("left"))
    ELSE Custom(AlignH("right"))

CallFunc(f, x, y) ==
    CASE f = "striped" -> Striped(x, y)
      [] f = "header" -> HeaderAlign(x, y)

\* Celled::resolve
CelledResolve(c, x, y) ==
    IF c.kind = "Value" THEN c.v ELSE CallFunc(c.f, x, y)

-----------------------------------------------------------------------------
(* TableCell::resolve_cell *)

ResolveFillConflated(self, fill) ==
    IF self.fill.tag = "Custom" /\ self.fill.v.some THEN self.fill.v ELSE fill

\* let fill = self.fill(styles).unwrap_or_else(|| fill.clone());
ResolveFill(self, fill) ==
    IF self.fill.tag = "Custom" THEN self.fill.v ELSE fill

ResolveAlignOuterWins(self, align) ==
    IF align.tag = "Custom"
    THEN Custom(IF self.align.tag = "Custom"
                THEN AlignFold(align.v, self.align.v)
                ELSE align.v)
    ELSE self.align

\* The value handed to push_align: a Custom table alignment is folded under
\* the cell's own alignment, an Auto table alignment leaves the cell's
\* alignment as it is.
ResolveAlign(self, align) ==
    IF align.tag = "Custom"
    THEN Custom(IF self.align.tag = "Custom"
                THEN AlignFold(self.align.v, align.v)
                ELSE align.v)
    ELSE self.align

ResolveInsetUnfolded(self, inset) ==
    IF self.inset.tag = "Custom" THEN self.inset ELSE Custom(SidesMapSome(inset))

\* The value handed to push_inset:
\* Smart::Custom(self.inset(styles).map_or(inset, |inner| inner.fold(inset)).map(Some))
ResolveInset(self, inset) ==
    Custom(SidesMapSome(IF self.inset.tag = "Custom"
                        THEN SidesFold(self.inset.v, inset)
                        ELSE inset))

\* resolve_cell: the coordinates are not used; the cell is repacked as the
\* body of the Cell with its three properties pushed, next to the fill.
ResolveCell(self, x, y, fill, align, inset) ==
    LET f == ResolveFill(self, fill)
    IN  [body |-> [self EXCEPT !.fill = Custom(f),
                               !.align = ResolveAlign(self, align),
                               !.inset = ResolveInset(self, inset)],
         fill |-> f]

-----------------------------------------------------------------------------
(* TableElem::layout *)

\* Coordinates of the i-th child (1-based) in a grid of c columns
ColOf(i, c) == (i - 1) % c
RowOf(i, c) == (i - 1) \div c

\* CellGrid::resolve: every child is resolved once, at its coordinate, against
\* the table's properties evaluated at that coordinate.
CellGridResolve(children, c, fill, align, inset) ==
    [i \in 1..Len(children) |->
        ResolveCell(children[i], ColOf(i, c), RowOf(i, c),
                    CelledResolve(fill, ColOf(i, c), RowOf(i, c)),
                    CelledResolve(align, ColOf(i, c), RowOf(i, c)),
                    inset)]

SmartFills == {Auto} \cup {Custom(o) : o \in OptionPaints}

CellAligns == {AlignH("center"), AlignV("top"), AlignBoth("right", "bottom")}
SmartCellAligns == {Auto} \cup {Custom(a) : a \in CellAligns}

CellInsetSides == [SideNames -> {None, Some(10)}]
SmartInsets == {Auto} \cup {Custom(s) : s \in CellInsetSides}

\* Every TableCell the model authors
TableCells ==
    [body : {"A"}, fill : SmartFills, align : SmartCellAligns, inset : SmartInsets]

\* The cells of tables with several children
RowCells ==
    {c \in TableCells :
        \/ c.align = Auto /\ c.inset = Auto
        \/ /\ c.align = Custom(AlignH("center"))
           /\ c.inset = Custom([SidesSplat(None) EXCEPT !["top"] = Some(10)])}

TableFills == {CelledValue(None), CelledValue(Some("green")), CelledFunc("striped")}

TableAligns ==
    {CelledValue(Auto), CelledValue(Custom(AlignH("right"))),
     CelledValue(Custom(AlignV("horizon"))),
     CelledValue(Custom(AlignBoth("left", "bottom"))), CelledFunc("header")}

TableInsets ==
    {SidesSplat(DefaultInset), [left |-> 1, top |-> 2, right |-> 3, bottom |-> 4]}

ChildLists ==
    {<<c>> : c \in TableCells}
        \cup UNION {[1..n -> RowCells] : n \in 2..MaxCells}

Tables ==
    [columns : {1, 2}, fill : TableFills, align : TableAligns,
     inset : TableInsets, children : ChildLists]

Layout ==
    /\ ~laid
    /\ grid' = CellGridResolve(table.children, table.columns, table.fill,
                               table.align, table.inset)
    /\ laid' = TRUE
    /\ UNCHANGED <<table, linkVars, urlVars>>


-----------------------------------------------------------------------------
(* Link values *)

\* Text is a sequence of characters
Mailto == <<"m", "a", "i", "l", "t", "o", ":">>
Tel == <<"t", "e", "l", ":">>
Https == <<"h", "t", "t", "p", "s", ":", "/", "/">>

\* Destination
DestUrl(u) == [kind |-> "Url", url |-> u]
DestPosition(page, x, y) == [kind |-> "Position", page |-> page, x |-> x, y |-> y]
DestLocation(loc) == [kind |-> "Location", loc |-> loc]

\* LinkTarget
TargetDest(d) == [kind |-> "Dest", dest |-> d]
TargetLabel(l) == [kind |-> "Label", label |-> l]

\* Content: text, the link attached to it (Content::linked) and the
\* hyphenation style set on it (Content::styled with TextElem::set_hyphenate)
TextPacked(text) == [text |-> text, link |-> None, hyphenate |-> Auto]
Linked(content, dest) == [content EXCEPT !.link = Some(dest)]
StyledHyphenate(content, h) == [content EXCEPT !.hyphenate = h]

\* str::trim_start_matches: removes the prefix as often as it repeats
RECURSIVE TrimStartMatches(_, _)
TrimStartMatches(text, prefix) ==
    IF /\ Len(prefix) > 0
       /\ Len(text) >= Len(prefix)
       /\ SubSeq(text, 1, Len(prefix)) = prefix
    THEN TrimStartMatches(SubSeq(text, Len(prefix) + 1, Len(text)), prefix)
    ELSE text

\* body_from_url: the loop over ["mailto:", "tel:"], then the choice between
\* the trimmed text and the URL
BodyFromUrl(u) ==
    LET text == TrimStartMatches(TrimStartMatches(u, Mailto), Tel)
        shorter == Len(text) < Len(u)
    IN  TextPacked(IF shorter THEN text ELSE u)

\* LinkElem::new
LinkNew(dest, body, span) == [dest |-> dest, body |-> body, span |-> span]

\* LinkElem::from_url
LinkFromUrl(u, span) == LinkNew(TargetDest(DestUrl(u)), BodyFromUrl(u), span)

\* The #[parse] of LinkElem.body: a URL destination may omit the body
LinkConstruct(dest, bodyArg, span) ==
    IF dest.kind = "Dest" /\ dest.dest.kind = "Url"
    THEN LinkNew(dest, IF bodyArg.some THEN bodyArg.v ELSE BodyFromUrl(dest.dest.url), span)
    ELSE LinkNew(dest, bodyArg.v, span)

-----------------------------------------------------------------------------
(* Introspection and the engine *)

Labels == {"intro", "end"}
Locations == {1, 2}
Spans == {11, 12}

\* The index: for every label the location of the element carrying it, if any
Indexes == [Labels -> {None} \cup {Some(h) : h \in Locations}]
EmptyIndex == [l \in Labels |-> None]

\* Introspector::query_label
QueryLabel(index, label) ==
    IF index[label].some
    THEN [ok |-> TRUE, elem |-> [location |-> index[label]], message |-> ""]
    ELSE [ok |-> FALSE, elem |-> [location |-> None],
          message |-> "label does not exist in the document"]

\* At::at: the error of a StrResult becomes a diagnostic at the span
At(message, span) == {[span |-> span, message |-> message]}

\* Engine::delayed: a failing closure leaves its errors with the tracer and
\* yields the default value
EngineDelayed(r) ==
    IF r.ok THEN [value |-> r.value, delay |-> {}]
    ELSE [value |-> None, delay |-> r.errors]


-----------------------------------------------------------------------------
(* LinkElem::show *)

\* What show hands back: Ok(content) or Err(errors), with the errors it left
\* with the tracer and the number of query_label lookups it made
ShowOk(content, delay, n) ==
    [ok |-> TRUE, content |-> content, delay |-> delay, queries |-> n, errors |-> {}]
ShowErr(errors, n) ==
    [ok |-> FALSE, content |-> TextPacked(<<>>), delay |-> {}, queries |-> n,
     errors |-> errors]

\* The closure given to engine.delayed: one lookup of the label; the element
\* found is linked to by its location, a failed lookup is an error at the
\* link's span.
LabelClosure(self, index) ==
    LET q == QueryLabel(index, self.dest.label)
    IN  IF q.ok
        THEN [ok |-> TRUE,
              value |-> Some(Linked(self.body, DestLocation(q.elem.location.v))),
              errors |-> {}, queries |-> 1]
        ELSE [ok |-> FALSE, value |-> None,
              errors |-> At(q.message, self.span), queries |-> 1]

ShowSwallowsFailure(self, index) ==
    IF self.dest.kind = "Dest"
    THEN ShowOk(StyledHyphenate(Linked(self.body, self.dest.dest), Custom(FALSE)), {}, 0)
    ELSE LET run == LabelClosure(self, index)
         IN  ShowOk(StyledHyphenate(IF run.value.some THEN run.value.v ELSE self.body,
                                    Custom(FALSE)),
                    {}, run.queries)

ShowPropagatesFailure(self, index) ==
    IF self.dest.kind = "Dest"
    THEN ShowOk(StyledHyphenate(Linked(self.body, self.dest.dest), Custom(FALSE)), {}, 0)
    ELSE LET run == LabelClosure(self, index)
         IN  IF run.ok
             THEN ShowOk(StyledHyphenate(run.value.v, Custom(FALSE)), {}, run.queries)
             ELSE ShowErr(run.errors, run.queries)

ShowReusesSuccess(self, index) ==
    IF self.dest.kind = "Dest"
    THEN ShowOk(StyledHyphenate(Linked(self.body, self.dest.dest), Custom(FALSE)), {}, 0)
    ELSE IF output.link.some
         THEN ShowOk(output, {}, 1)
         ELSE LET run == LabelClosure(self, index)
                  d == EngineDelayed(run)
              IN  ShowOk(StyledHyphenate(IF d.value.some THEN d.value.v ELSE self.body,
                                         Custom(FALSE)),
                         d.delay, run.queries)

ShowReusesFailure(self, index) ==
    IF self.dest.kind = "Dest"
    THEN ShowOk(StyledHyphenate(Linked(self.body, self.dest.dest), Custom(FALSE)), {}, 0)
    ELSE IF status = "ok" /\ ~output.link.some
         THEN ShowOk(output, At("label does not exist in the document", self.span), 0)
         ELSE LET run == LabelClosure(self, index)
                  d == EngineDelayed(run)
              IN  ShowOk(StyledHyphenate(IF d.value.some THEN d.value.v ELSE self.body,
                                         Custom(FALSE)),
                         d.delay, run.queries)

ShowHyphenatesLabelsOnly(self, index) ==
    IF self.dest.kind = "Dest"
    THEN ShowOk(Linked(self.body, self.dest.dest), {}, 0)
    ELSE LET run == LabelClosure(self, index)
             d == EngineDelayed(run)
         IN  ShowOk(StyledHyphenate(IF d.value.some THEN d.value.v ELSE self.body,
                                    Custom(FALSE)),
                    d.delay, run.queries)

ShowBareFallback(self, index) ==
    IF self.dest.kind = "Dest"
    THEN ShowOk(StyledHyphenate(Linked(self.body, self.dest.dest), Custom(FALSE)), {}, 0)
    ELSE LET run == LabelClosure(self, index)
             d == EngineDelayed(run)
         IN  ShowOk(IF d.value.some
                    THEN StyledHyphenate(d.value.v, Custom(FALSE))
                    ELSE self.body,
                    d.delay, run.queries)

\* show: a Dest target is linked at once; a Label target is looked up inside
\* engine.delayed and falls back to the body; whatever came out is styled
\* with hyphenation off and returned as Ok.
Show(self, index) ==
    IF self.dest.kind = "Dest"
    THEN ShowOk(StyledHyphenate(Linked(self.body, self.dest.dest), Custom(FALSE)), {}, 0)
    ELSE LET run == LabelClosure(self, index)
             d == EngineDelayed(run)
         IN  ShowOk(StyledHyphenate(IF d.value.some THEN d.value.v ELSE self.body,
                                    Custom(FALSE)),
                    d.delay, run.queries)

-----------------------------------------------------------------------------
(* The typesetting loop around LinkElem::show *)

GoText == <<"G", "o">>

Targets ==
    {TargetDest(DestUrl(Https \o <<"e">>)), TargetDest(DestPosition(1, 0, 0)),
     TargetDest(DestLocation(2))}
        \cup {TargetLabel(l) : l \in Labels}

Links ==
    {LinkConstruct(t, Some(TextPacked(GoText)), sp) : t \in Targets, sp \in Spans}
        \cup {LinkFromUrl(Mailto \o <<"a">>, sp) : sp \in Spans}

\* A pass starts with no delayed errors
BeginPass ==
    /\ pc = "begin"
    /\ delayed' = {}
    /\ queries' = 0
    /\ pc' = "layout"
    /\ UNCHANGED <<elem, introspector, iter, output, previous, status, diags>>
    /\ UNCHANGED <<tableVars, urlVars>>

\* Layout of the document shows the link against the pass's index; an error
\* returned by show ends the compilation with that error.
ShowLink ==
    /\ pc = "layout"
    /\ LET r == Show(elem, introspector)
       IN  /\ queries' = queries + r.queries
           /\ IF r.ok
              THEN /\ output' = r.content
                   /\ status' = "ok"
                   /\ delayed' = delayed \cup r.delay
                   /\ pc' = "end"
                   /\ UNCHANGED diags
              ELSE /\ status' = "err"
                   /\ diags' = r.errors
                   /\ pc' = "done"
                   /\ UNCHANGED <<output, delayed>>
    /\ UNCHANGED <<elem, introspector, iter, previous>>
    /\ UNCHANGED <<tableVars, urlVars>>

\* The rebuilt index answers the pass's lookups as the pass's index did
Validate(rebuilt) ==
    elem.dest.kind = "Label" =>
        QueryLabel(rebuilt, elem.dest.label) = QueryLabel(introspector, elem.dest.label)

\* The index rebuilt from the pass's document differs: another pass
Repeat(rebuilt) ==
    /\ pc = "end"
    /\ ~Validate(rebuilt)
    /\ iter + 1 < PassBudget
    /\ iter' = iter + 1
    /\ introspector' = rebuilt
    /\ previous' = output
    /\ pc' = "begin"
    /\ UNCHANGED <<elem, delayed, queries, output, status, diags>>
    /\ UNCHANGED <<tableVars, urlVars>>

\* Fixed point reached or budget spent: the delayed errors of the last pass
\* are the compilation's errors
Finish(rebuilt) ==
    /\ pc = "end"
    /\ Validate(rebuilt) \/ iter + 1 >= PassBudget
    /\ iter' = iter + 1
    /\ diags' = delayed
    /\ pc' = "done"
    /\ UNCHANGED <<elem, introspector, delayed, queries, output, previous, status>>
    /\ UNCHANGED <<tableVars, urlVars>>

-----------------------------------------------------------------------------
(* Construction of a link from a URL *)

Chunks == {Mailto, Tel, Https, <<"a", "@", "b">>, <<"t", "e", "l">>, <<":">>}

RECURSIVE Concat(_)
Concat(chunks) == IF chunks = <<>> THEN <<>> ELSE Head(chunks) \o Concat(Tail(chunks))

Urls == {Concat(cs) : cs \in UNION {[1..n -> Chunks] : n \in 0..MaxChunks}}

NoLink == LinkNew(TargetDest(DestUrl(<<>>)), TextPacked(<<>>), 0)

\* LinkElem::from_url(url)
FromUrl ==
    /\ link.how = "none"
    /\ link' = [how |-> "from_url", elem |-> LinkFromUrl(url, 11)]
    /\ UNCHANGED <<url, tableVars, linkVars>>

\* link(url) and link(url)[body]
ConstructLink(bodyArg) ==
    /\ link.how = "none"
    /\ link' = [how |-> IF bodyArg.some THEN "body" ELSE "omitted",
                elem |-> LinkConstruct(TargetDest(DestUrl(url)), bodyArg, 11)]
    /\ UNCHANGED <<url, tableVars, linkVars>>

-----------------------------------------------------------------------------
(* Specifications *)

\* A table as authored, not yet laid out; no link is shown or constructed
InitTable ==
    /\ table \in Tables
    /\ grid = <<>>
    /\ laid = FALSE
    /\ elem = NoLink
    /\ introspector = EmptyIndex
    /\ iter = 0
    /\ pc = "done"
    /\ delayed = {}
    /\ queries = 0
    /\ output = TextPacked(<<>>)
    /\ previous = TextPacked(<<>>)
    /\ status = "none"
    /\ diags = {}
    /\ url = <<>>
    /\ link = [how |-> "idle", elem |-> NoLink]

\* A link at the start of the compilation: the first pass sees an empty index
InitLink ==
    /\ table = [columns |-> 1, fill |-> CelledValue(None), align |-> CelledValue(Auto),
                inset |-> SidesSplat(DefaultInset), children |-> <<>>]
    /\ grid = <<>>
    /\ laid = TRUE
    /\ elem \in Links
    /\ introspector = EmptyIndex
    /\ iter = 0
    /\ pc = "begin"
    /\ delayed = {}
    /\ queries = 0
    /\ output = TextPacked(<<>>)
    /\ previous = TextPacked(<<>>)
    /\ status = "none"
    /\ diags = {}
    /\ url = <<>>
    /\ link = [how |-> "idle", elem |-> NoLink]

\* A URL from which no link has been constructed yet
InitUrl ==
    /\ table = [columns |-> 1, fill |-> CelledValue(None), align |-> CelledValue(Auto),
                inset |-> SidesSplat(DefaultInset), children |-> <<>>]
    /\ grid = <<>>
    /\ laid = TRUE
    /\ elem = NoLink
    /\ introspector = EmptyIndex
    /\ iter = 0
    /\ pc = "done"
    /\ delayed = {}
    /\ queries = 0
    /\ output = TextPacked(<<>>)
    /\ previous = TextPacked(<<>>)
    /\ status = "none"
    /\ diags = {}
    /\ url \in Urls
    /\ link = [how |-> "none", elem |-> NoLink]

NextTable == Layout

NextLink ==
    \/ BeginPass
    \/ ShowLink
    \/ \E rebuilt \in Indexes : Repeat(rebuilt)
    \/ \E rebuilt \in Indexes : Finish(rebuilt)

NextUrl ==
    \/ FromUrl
    \/ \E bodyArg \in {None, Some(TextPacked(GoText))} : ConstructLink(bodyArg)

SpecTable == InitTable /\ [][NextTable]_vars
SpecLink == InitLink /\ [][NextLink]_vars
SpecUrl == InitUrl /\ [][NextUrl]_vars

-----------------------------------------------------------------------------
(* Properties of TableCell::resolve_cell, checked under SpecTable *)

\* The table's properties at the coordinate of the i-th child
FillAt(i) ==
    CelledResolve(table.fill, ColOf(i, table.columns), RowOf(i, table.columns))
AlignAt(i) ==
    CelledResolve(table.align, ColOf(i, table.columns), RowOf(i, table.columns))

\* C1: every resolved cell's fill is the table's fill at its coordinate when
\* the cell's own fill is Auto, and the cell's own value when it is Custom,
\* the explicit Custom(none) included, which gives no fill; so one cell's
\* override changes no other cell's fill.
C1_FillContract ==
    laid =>
        /\ Len(grid) = Len(table.children)
        /\ \A i \in DOMAIN grid :
            LET own == table.children[i].fill
            IN  /\ own = Auto => grid[i].fill = FillAt(i)
                /\ own.tag = "Custom" => grid[i].fill = own.v
                /\ own = Custom(None) => grid[i].fill = None

C1_Witness ==
    /\ laid
    /\ table.fill = CelledValue(Some("green"))
    /\ \E i, j, k \in DOMAIN grid :
        /\ table.children[i].fill = Custom(Some("blue")) /\ grid[i].fill = Some("blue")
        /\ table.children[j].fill = Auto /\ grid[j].fill = Some("green")
        /\ table.children[k].fill = Custom(None) /\ grid[k].fill = None

\* C2: the inset stored on every resolved cell is Custom with all four sides
\* present; each side is the cell's own side where the cell gives one and
\* the table's side otherwise.
C2_InsetContract ==
    laid =>
        \A i \in DOMAIN grid :
            LET own == table.children[i].inset
                r == grid[i].body.inset
            IN  /\ r.tag = "Custom"
                /\ \A s \in SideNames :
                    /\ r.v[s].some
                    /\ r.v[s].v = IF own.tag = "Custom" /\ own.v[s].some
                                  THEN own.v[s].v
                                  ELSE table.inset[s]

C2_Witness ==
    /\ laid
    /\ table.inset = SidesSplat(5)
    /\ \E i \in DOMAIN grid :
        /\ table.children[i].inset =
               Custom([left |-> None, top |-> Some(10), right |-> None, bottom |-> None])
        /\ grid[i].body.inset =
               Custom([left |-> Some(5), top |-> Some(10), right |-> Some(5),
                       bottom |-> Some(5)])

\* C3: under an Auto table alignment the cell keeps its own tri-state
\* alignment; under a Custom table alignment A the result is Custom: A for an
\* Auto cell, and the cell's alignment folded over A for a Custom cell, the
\* cell's value winning on every axis it sets.
C3_AlignContract ==
    laid =>
        \A i \in DOMAIN grid :
            LET own == table.children[i].align
                A == AlignAt(i)
                r == grid[i].body.align
            IN  /\ A = Auto => r = own
                /\ A.tag = "Custom" =>
                    /\ r.tag = "Custom"
                    /\ own = Auto => r.v = A.v
                    /\ own.tag = "Custom" =>
                        /\ r.v = AlignFold(own.v, A.v)
                        /\ own.v.kind \in {"H", "Both"} =>
                               r.v.kind \in {"H", "Both"} /\ r.v.x = own.v.x
                        /\ own.v.kind \in {"V", "Both"} =>
                               r.v.kind \in {"V", "Both"} /\ r.v.y = own.v.y

C3_Witness ==
    /\ laid
    /\ \E i \in DOMAIN grid :
        /\ table.children[i].align = Custom(AlignV("top"))
        /\ AlignAt(i) = Custom(AlignBoth("left", "bottom"))
        /\ grid[i].body.align = Custom(AlignBoth("left", "top"))

-----------------------------------------------------------------------------
(* Properties of LinkElem::show across passes, checked under SpecLink *)

IsLabel == elem.dest.kind = "Label"

\* What the current pass's index holds for the link's label
Hit == introspector[elem.dest.label]

NotFoundAt(span) == {[span |-> span, message |-> "label does not exist in the document"]}

\* C4: when the compilation of a label link ends, either the last pass did
\* not find the label and the error at the link's span is reported with the
\* body unlinked, or it found the label and the body is linked with nothing
\* reported; never neither and never both.
C4_FinalOutcome ==
    (pc = "done" /\ IsLabel) =>
        /\ ~Hit.some => diags = NotFoundAt(elem.span) /\ ~output.link.some
        /\ Hit.some => output.link = Some(DestLocation(Hit.v)) /\ diags = {}
        /\ output.link.some <=> diags = {}

C4_Witness ==
    /\ pc = "done"
    /\ IsLabel
    /\ iter >= 2
    /\ diags = NotFoundAt(elem.span)
    /\ ~output.link.some

\* C5: show never returns an error; in a pass whose lookup fails it returns
\* the body without a destination and the failure, at the link's span, is
\* only left with the tracer: nothing is reported before the passes end.
C5_FailureDeferred ==
    /\ status # "err"
    /\ pc # "done" => diags = {}
    /\ (pc = "end" /\ IsLabel /\ ~Hit.some) =>
        /\ status = "ok"
        /\ output.text = elem.body.text
        /\ output.link = None
        /\ delayed = NotFoundAt(elem.span)

C5_Witness ==
    /\ pc = "end"
    /\ IsLabel
    /\ ~Hit.some
    /\ status = "ok"
    /\ delayed # {}

\* C6: in a pass whose index holds an element for the label, show returns
\* the body linked to the location of exactly that element, and leaves no
\* error behind.
C6_FoundIsLinked ==
    (pc = "end" /\ IsLabel /\ Hit.some) =>
        /\ status = "ok"
        /\ output.text = elem.body.text
        /\ output.link = Some(DestLocation(Hit.v))
        /\ delayed = {}

C6_Witness ==
    /\ pc = "end"
    /\ IsLabel
    /\ Hit.some
    /\ ~previous.link.some
    /\ output.link = Some(DestLocation(Hit.v))

\* C7: every pass makes exactly one lookup for a label link, and the link
\* returned follows that pass's index alone, whatever earlier passes found.
C7_FreshLookup ==
    (pc = "end" /\ IsLabel) =>
        /\ queries = 1
        /\ output.link = IF Hit.some THEN Some(DestLocation(Hit.v)) ELSE None

C7_Witness ==
    /\ pc = "end"
    /\ IsLabel
    /\ queries = 1
    /\ previous.link.some
    /\ ~Hit.some
    /\ ~output.link.some

\* C8: whenever show returned a linked body, through a Dest target or
\* through a resolved label, hyphenation is forced off on it.
C8_LinkedNotHyphenated ==
    (status = "ok" /\ output.link.some) => output.hyphenate = Custom(FALSE)

C8_Witness ==
    /\ status = "ok"
    /\ IsLabel
    /\ output.link.some
    /\ output.hyphenate = Custom(FALSE)

\* C10: hyphenation is forced off on every path of show: the fallback of a
\* pass that did not find the label is the unlinked body with hyphenation
\* off, never the body as it was.
C10_FallbackNotHyphenated ==
    /\ status = "ok" => output.hyphenate = Custom(FALSE)
    /\ (pc = "end" /\ IsLabel /\ ~Hit.some) =>
        /\ output = StyledHyphenate(elem.body, Custom(FALSE))
        /\ output # elem.body

C10_Witness ==
    /\ pc = "end"
    /\ IsLabel
    /\ ~output.link.some
    /\ output.hyphenate = Custom(FALSE)
    /\ elem.body.hyphenate = Auto

-----------------------------------------------------------------------------
(* Properties of body_from_url, checked under SpecUrl *)

StartsWith(text, prefix) ==
    Len(text) >= Len(prefix) /\ SubSeq(text, 1, Len(prefix)) = prefix

\* The URL without its scheme prefix, removed once
SchemeStripped(u) ==
    IF StartsWith(u, Mailto) THEN SubSeq(u, Len(Mailto) + 1, Len(u))
    ELSE IF StartsWith(u, Tel) THEN SubSeq(u, Len(Tel) + 1, Len(u))
    ELSE u

\* C9: the body of a URL link constructed without a body is the URL with its
\* mailto: or tel: prefix removed when it starts with one, and the whole URL
\* otherwise; nothing else is removed.
C9_SchemeStrippedOnce ==
    link.how \in {"from_url", "omitted"} => link.elem.body.text = SchemeStripped(url)


====
